---- MODULE Spec2Model ----
(***************************************************************************)
(* A model of hoover/setup: hoover_script.py (parameter resolution,        *)
(* settings materialisation, config-directory linking, secret generation,  *)
(* the lifecycle operations), parser.py (the sub-command dispatcher) and   *)
(* install.py (the installer).                                             *)
(*                                                                         *)
(* Python values are modelled as strings; None and False are the two       *)
(* reserved strings below, which no environment value, default or operator *)
(* input collides with.                                                    *)
(***************************************************************************)
EXTENDS Integers, Sequences, FiniteSets, TLC

VARIABLES
    environ,            \* os.environ: a partial map from variable names to strings
    interactive_mode,   \* hoover_script.interactive_mode
    param_list,         \* hoover_script.param_list: the Param objects, in declaration order
    ret,                \* outcome of the latest Param.get() / random_secret_key() call
    returns,            \* every value Param.get() returned so far, in call order
    script,             \* which program runs: "hoover_script.py", "install.py", or "lib"
    argv,               \* sys.argv[1:]
    todo,               \* the steps the running operation still has to execute
    calls,              \* handler invocations made by main(): <<[handler, args]>>
    exit,               \* process outcome: None while running, else an exit status / "exec"
    exc,                \* the exception that ended the process (None if none)
    cmdlog,             \* external commands run so far: <<[cmd, status]>>
    fs,                 \* the file system the program touches
    stdout,             \* lines printed
    secrets,            \* number of secret keys generated
    fault,              \* the I/O outcome injected into the latest configure step
    execd,              \* the command line the process image was replaced with
    attempt             \* how many times the program was started on this file system

vars == <<environ, interactive_mode, param_list, ret, returns, script, argv, todo,
          calls, exit, exc, cmdlog, fs, stdout, secrets, fault, execd, attempt>>

None == "<None>"
False == "<False>"

\* Python truthiness of a str / None / False value.
Truthy(v) == v \notin {None, False, ""}

\* os.getenv(key): the value, or None when the variable is not set.
getenv(key) == IF key \in DOMAIN environ THEN environ[key] ELSE None

(***************************************************************************)
(* Param                                                                   *)
(***************************************************************************)

\* Param.__init__: value starts as None.
Param(name, default, env, question_label, required) ==
    [name |-> name, default |-> default, environ |-> env,
     question_label |-> question_label, required |-> required, value |-> None]

\* str.strip() on the operator inputs the model draws.
strip(rv) ==
    CASE rv = " " -> ""
      [] rv = " typed " -> "typed"
      [] OTHER -> rv

\* Param._question: `rv.strip() or default`.
question(rv, default) == IF Truthy(strip(rv)) THEN strip(rv) ELSE default

\* The three-way choice of Param.get for a parameter whose cache is empty
\* (lines 50-55): a mutant that lets the default win over the environment.
resolve_default_first(self, rv) ==
    IF self.default # None
        THEN self.default
    ELSE IF Truthy(getenv(self.environ))
        THEN getenv(self.environ)
    ELSE IF interactive_mode /\ self.required /\ self.question_label # None
        THEN question(rv, self.default)
    ELSE self.default

\* Lines 50-55 of Param.get; rv is what the operator types if prompted.
resolve(self, rv) ==
    IF Truthy(getenv(self.environ))
        THEN getenv(self.environ)
    ELSE IF interactive_mode /\ self.required /\ self.question_label # None
        THEN question(rv, self.default)
    ELSE self.default

\* A mutant of the post-check that lets a required parameter resolve to None.
must_raise_never(self, value) == FALSE

\* Lines 57-59 of Param.get: the post-check.
must_raise(self, value) == value = None /\ self.required

\* Param.get: [value: the cache after the call, raised, result: the value
\* returned (None when raised), name/environ: what the error message names].
get(self, rv) ==
    IF self.value # None
        THEN [value |-> self.value, raised |-> FALSE, result |-> self.value,
              name |-> None, environ |-> None, cached |-> TRUE]
    ELSE LET v == resolve(self, rv) IN
         IF must_raise(self, v)
            THEN [value |-> v, raised |-> TRUE, result |-> None,
                  name |-> self.name, environ |-> self.environ, cached |-> FALSE]
            ELSE [value |-> v, raised |-> FALSE, result |-> v,
                  name |-> None, environ |-> None, cached |-> FALSE]


(***************************************************************************)
(* Values shared by the specifications for the state they do not use.      *)
(***************************************************************************)

NoEnv == [k \in {} |-> None]
NoRet == [kind |-> "none"]

(***************************************************************************)
(* SpecParam: Param.get on one parameter of arbitrary shape, called        *)
(* repeatedly while the environment is set, changed and unset in between.  *)
(***************************************************************************)

\* How many Param.get() calls one behaviour of SpecParam makes.
MaxCalls == 2

ProbeKey == "HOOVER_PROBE"
Defaults == {None, False, "dflt"}
Labels == {None, "Probe label"}
EnvValues == {"", "env-a", "env-b"}
OperatorInputs == {"", " ", "typed", " typed "}

InitParam ==
    /\ param_list \in {<<Param("probe", d, ProbeKey, l, r)>> :
                           d \in Defaults, l \in Labels, r \in BOOLEAN}
    /\ environ \in {NoEnv} \cup {[k \in {ProbeKey} |-> v] : v \in EnvValues}
    /\ interactive_mode \in BOOLEAN
    /\ ret = NoRet
    /\ returns = <<>>
    /\ script = "lib"
    /\ argv = <<>>
    /\ todo = <<>>
    /\ calls = <<>>
    /\ exit = None
    /\ exc = None
    /\ cmdlog = <<>>
    /\ fs = [k \in {} |-> None]
    /\ stdout = <<>>
    /\ secrets = 0
    /\ fault = None
    /\ execd = <<>>
    /\ attempt = 1

\* One call of param_list[i].get(); rv is what the operator types if asked.
\* The record kept in ret/returns holds what the call saw and what it gave.
CallGet(i, rv) ==
    /\ script = "lib"
    /\ Len(returns) < MaxCalls
    /\ LET self == param_list[i]
           r == get(self, rv)
           seen == [kind |-> "get", index |-> i, rv |-> rv,
                    env_seen |-> getenv(self.environ),
                    cached_before |-> self.value,
                    interactive |-> interactive_mode,
                    raised |-> r.raised, result |-> r.result,
                    name |-> r.name, environ |-> r.environ,
                    value_after |-> r.value]
       IN /\ param_list' = [param_list EXCEPT ![i].value = r.value]
          /\ ret' = seen
          /\ returns' = Append(returns, seen)
    /\ UNCHANGED <<environ, interactive_mode, script, argv, todo, calls, exit, exc,
                   cmdlog, fs, stdout, secrets, fault, execd, attempt>>

\* The environment variable is set or changed between two calls.
SetEnv(v) ==
    /\ script = "lib"
    /\ param_list # <<>>
    /\ environ' = [k \in {ProbeKey} |-> v]
    /\ environ' # environ
    /\ UNCHANGED <<interactive_mode, param_list, ret, returns, script, argv, todo,
                   calls, exit, exc, cmdlog, fs, stdout, secrets, fault, execd, attempt>>

\* The environment variable is unset between two calls.
UnsetEnv ==
    /\ script = "lib"
    /\ param_list # <<>>
    /\ environ # NoEnv
    /\ environ' = NoEnv
    /\ UNCHANGED <<interactive_mode, param_list, ret, returns, script, argv, todo,
                   calls, exit, exc, cmdlog, fs, stdout, secrets, fault, execd, attempt>>

NextParam ==
    \/ \E i \in 1..Len(param_list), rv \in OperatorInputs : CallGet(i, rv)
    \/ \E v \in EnvValues : SetEnv(v)
    \/ UnsetEnv

SpecParam == InitParam /\ [][NextParam]_vars

\* C1 (as claimed): any two calls of get() on a parameter that both return
\* give the identical value, whatever happened to the environment in between.
C1_Memoization ==
    \A a, b \in 1..Len(returns) :
        (a < b /\ returns[a].index = returns[b].index
           /\ ~returns[a].raised /\ ~returns[b].raised)
        => returns[b].result = returns[a].result

\* C2: a call on a parameter with nothing cached whose environment variable
\* is set to a non-empty value returns exactly that value (for every default,
\* required flag, interactive mode and operator input); a variable that is
\* set but empty gives what an unset variable gives: the prompt's answer when
\* a prompt is due, else the default.
C2_Precedence ==
    \A c \in 1..Len(returns) :
        LET r == returns[c]
            p == param_list[r.index]
            prompted == r.interactive /\ p.required /\ p.question_label # None
            fallthrough == IF prompted THEN question(r.rv, p.default) ELSE p.default
        IN r.cached_before = None =>
            /\ Truthy(r.env_seen) => (~r.raised /\ r.result = r.env_seen
                                        /\ r.value_after = r.env_seen)
            /\ r.env_seen \in {"", None} => r.value_after = fallthrough

\* C2's case happened: a required parameter with a default and a prompt
\* label, nothing cached, in interactive mode with an answer typed, returned
\* the non-empty value of its environment variable.
C2_Witness ==
    \E a \in 1..Len(returns) :
        /\ returns[a].cached_before = None /\ returns[a].env_seen = "env-a"
        /\ returns[a].interactive /\ returns[a].rv = "typed"
        /\ param_list[1].default = "dflt" /\ param_list[1].required
        /\ param_list[1].question_label # None
        /\ returns[a].result = "env-a"

\* C7: with interactive mode off, no default and the environment variable
\* unset or empty, get() on a required parameter raises an error naming the
\* parameter and its environment key and caches nothing; on an optional
\* parameter it returns None without error.
C7_RequiredMissing ==
    \A c \in 1..Len(returns) :
        LET r == returns[c]
            p == param_list[r.index]
        IN (r.cached_before = None /\ p.default = None /\ ~r.interactive
              /\ ~Truthy(r.env_seen)) =>
            IF p.required
               THEN r.raised /\ r.name = p.name /\ r.environ = p.environ
                      /\ r.value_after = None
               ELSE ~r.raised /\ r.result = None

\* C7's case happened: a required parameter without default raised, with the
\* variable unset and with it set but empty.
C7_Witness ==
    \E a, b \in 1..Len(returns) :
        /\ param_list[1].required /\ param_list[1].default = None
        /\ ~interactive_mode
        /\ returns[a].env_seen = None /\ returns[a].raised
        /\ returns[b].env_seen = "" /\ returns[b].raised
        /\ returns[b].name = "probe" /\ returns[b].environ = ProbeKey


(***************************************************************************)
(* random_secret_key                                                       *)
(***************************************************************************)

\* The vocabulary of random_secret_key, one symbol per element.
vocabulary ==
    <<
       "a", "b", "c", "d", "e", "f", "g", "h", "i", "j", "k", "l", "m",
       "n", "o", "p", "q", "r", "s", "t", "u", "v", "w", "x", "y", "z",
       "A", "B", "C", "D", "E", "F", "G", "H", "I", "J", "K", "L", "M",
       "N", "O", "P", "Q", "R", "S", "T", "U", "V", "W", "X", "Y", "Z",
       "0", "1", "2", "3", "4", "5", "6", "7", "8", "9", "!", "@", "#",
       "$", "%", "^", "&", "*", "(", ")", "-", "=", "+", "[", "]", "{",
       "}", ":", ".", "<", ">", "/", "?"
    >>

\* math.log(n, 2) in millionths, truncated, for the vocabulary sizes the
\* model speaks of: math.log(85, 2) = 6.409390936137703 and
\* math.log(70, 2) = 6.129283016944967.
log2_micro(n) ==
    CASE n = 85 -> 6409390
      [] n = 70 -> 6129283

\* A mutant of chars_for: int() of the quotient without math.ceil.
chars_truncated(entropy, nvocab) == (entropy * 1000000) \div log2_micro(nvocab)

\* int(math.ceil(entropy / entropy_per_char)), in millionths.
chars_for(entropy, nvocab) ==
    (entropy * 1000000 + log2_micro(nvocab) - 1) \div log2_micro(nvocab)

\* urandom.choice(vocabulary) for the i-th character: SystemRandom is
\* modelled by a bounded family of index streams (seed, stride).
choice(seed, stride, i) == vocabulary[((seed + i * stride) % Len(vocabulary)) + 1]

\* random_secret_key(entropy), drawing from stream (seed, stride): the key as
\* a sequence of symbols.
random_secret_key(entropy, seed, stride) ==
    LET chars == chars_for(entropy, Len(vocabulary))
    IN [i \in 1..chars |-> choice(seed, stride, i - 1)]

(***************************************************************************)
(* Exact arithmetic on naturals beyond the checker's integers, for stating *)
(* V^n >= 2^E: a natural is its base-10000 digits, least significant first.*)
(***************************************************************************)

RECURSIVE BigMulCarry(_, _, _)
BigMulCarry(a, m, carry) ==
    IF a = <<>>
        THEN IF carry = 0 THEN <<>>
             ELSE <<carry % 10000>> \o BigMulCarry(<<>>, m, carry \div 10000)
        ELSE LET t == Head(a) * m + carry
             IN <<t % 10000>> \o BigMulCarry(Tail(a), m, t \div 10000)

BigMul(a, m) == BigMulCarry(a, m, 0)

\* The largest k with b^k <= 200000 (so that a digit times b^k fits), and b^k.
RECURSIVE ChunkOf(_, _, _)
ChunkOf(b, acc, k) ==
    IF acc * b <= 200000 THEN ChunkOf(b, acc * b, k + 1) ELSE <<k, acc>>

\* b^n for 2 <= b <= 200000, multiplying by b^k at a time.
RECURSIVE BigPow(_, _)
BigPow(b, n) ==
    LET c == ChunkOf(b, 1, 0)
    IN IF n = 0 THEN <<1>>
       ELSE IF n >= c[1] THEN BigMul(BigPow(b, n - c[1]), c[2])
       ELSE BigMul(BigPow(b, n - 1), b)

RECURSIVE BigGeqFrom(_, _, _)
BigGeqFrom(a, b, i) ==
    IF i = 0 THEN TRUE
    ELSE IF a[i] # b[i] THEN a[i] > b[i]
    ELSE BigGeqFrom(a, b, i - 1)

\* a >= b, both without leading zero digits.
BigGeq(a, b) ==
    IF Len(a) # Len(b) THEN Len(a) > Len(b) ELSE BigGeqFrom(a, b, Len(a))

\* n is the least natural with v^n >= 2^e.
LeastPower(n, v, e) ==
    /\ BigGeq(BigPow(v, n), BigPow(2, e))
    /\ n > 0 => ~BigGeq(BigPow(v, n - 1), BigPow(2, e))

(***************************************************************************)
(* SpecSecret: one call of random_secret_key with an arbitrary entropy     *)
(* target and random stream.                                               *)
(***************************************************************************)

\* The largest entropy target drawn (the default, 256, lies below it).
MaxEntropy == 260
\* The random streams drawn: seeds 0..MaxSeed, strides 1..MaxStride.
MaxSeed == 1
MaxStride == 2

InitSecret ==
    /\ param_list = <<>>
    /\ environ = NoEnv
    /\ interactive_mode = FALSE
    /\ ret = NoRet
    /\ returns = <<>>
    /\ script = "lib"
    /\ argv = <<>>
    /\ todo = <<>>
    /\ calls = <<>>
    /\ exit = None
    /\ exc = None
    /\ cmdlog = <<>>
    /\ fs = [k \in {} |-> None]
    /\ stdout = <<>>
    /\ secrets = 0
    /\ fault = None
    /\ execd = <<>>
    /\ attempt = 1

GenerateKey(entropy, seed, stride) ==
    /\ script = "lib"
    /\ param_list = <<>>
    /\ secrets = 0
    /\ ret' = [kind |-> "secret", entropy |-> entropy,
               key |-> random_secret_key(entropy, seed, stride)]
    /\ secrets' = secrets + 1
    /\ UNCHANGED <<environ, interactive_mode, param_list, returns, script, argv, todo,
                   calls, exit, exc, cmdlog, fs, stdout, fault, execd, attempt>>

NextSecret ==
    \E entropy \in 0..MaxEntropy, seed \in 0..MaxSeed, stride \in 1..MaxStride :
        GenerateKey(entropy, seed, stride)

SpecSecret == InitSecret /\ [][NextSecret]_vars

InVocabulary(key) ==
    \A i \in 1..Len(key) : \E j \in 1..Len(vocabulary) : key[i] = vocabulary[j]

\* C10 (as claimed): the vocabulary has 70 symbols and random_secret_key(256)
\* returns 42 characters, all of the vocabulary; for every entropy target E
\* the length is the least n with 70^n >= 2^E.
C10_SecretShape70 ==
    ret.kind = "secret" =>
        /\ Len(vocabulary) = 70
        /\ InVocabulary(ret.key)
        /\ ret.entropy = 256 => Len(ret.key) = 42
        /\ LeastPower(Len(ret.key), 70, ret.entropy)

\* C10 (amended): the vocabulary has 85 distinct symbols and
\* random_secret_key(256) returns ceil(256 / log2(85)) = 40 characters, all of
\* the vocabulary; for every entropy target E the length is the least n with
\* 85^n >= 2^E.
C10_SecretShape ==
    /\ Len(vocabulary) = 85
    /\ Cardinality({vocabulary[j] : j \in 1..Len(vocabulary)}) = 85
    /\ ret.kind = "secret" =>
        /\ InVocabulary(ret.key)
        /\ ret.entropy = 256 => Len(ret.key) = 40
        /\ LeastPower(Len(ret.key), Len(vocabulary), ret.entropy)

\* C10's case happened: a key for the default entropy target, 256 bits, was
\* generated, and it does not repeat one symbol.
C10_Witness ==
    /\ ret.kind = "secret"
    /\ ret.entropy = 256
    /\ Len(ret.key) = 40
    /\ ret.key[1] # ret.key[2]


(***************************************************************************)
(* hoover_script.py: the declared parameters and module import             *)
(***************************************************************************)

\* The executables whose paths shutil.which supplies as defaults.
Tools == {"7z", "msgconvert", "readpst", "gpg"}

\* What shutil.which can answer at import: nothing installed, or every tool
\* found under /usr/bin.
WhichResults ==
    { [t \in Tools |-> None],
      [t \in Tools |-> CASE t = "7z" -> "/usr/bin/7z"
                         [] t = "msgconvert" -> "/usr/bin/msgconvert"
                         [] t = "readpst" -> "/usr/bin/readpst"
                         [] t = "gpg" -> "/usr/bin/gpg"] }

\* class Params: the Param objects in the order their constructors append
\* them to param_list; which[t] is shutil.which(t).
Params(which) ==
    << Param("virtualenv_url", "https://github.com/pypa/virtualenv/raw/master/virtualenv.py",
             "HOOVER_VIRTUALENV_URL", None, TRUE),
       Param("setuptools_url", "https://pypi.python.org/packages/8a/1f/e2e14f0b98d0b6de6c3fb4e8a3b45d3b8907783937c497cb53539c0d2b19/setuptools-28.6.1-py2.py3-none-any.whl",
             "HOOVER_SETUPTOOLS_URL", None, TRUE),
       Param("pip_url", "https://pypi.python.org/packages/9c/32/004ce0852e0a127f07f358b715015763273799bd798956fa930814b60f39/pip-8.1.2-py2.py3-none-any.whl",
             "HOOVER_PIP_URL", None, TRUE),
       Param("search_repo", "https://github.com/hoover/search.git",
             "HOOVER_SEARCH_REPO", None, TRUE),
       Param("bootstrap_no_db", False, "HOOVER_BOOTSTRAP_NO_DB", None, FALSE),
       Param("snoop_repo", "https://github.com/hoover/snoop.git",
             "HOOVER_SNOOP_REPO", None, TRUE),
       Param("ui_repo", "https://github.com/hoover/ui.git", "HOOVER_UI_REPO", None, TRUE),
       Param("search_db", "hoover-search", "HOOVER_SEARCH_DB",
             "PostgreSQL search database", TRUE),
       Param("snoop_db", "hoover-snoop", "HOOVER_SNOOP_DB",
             "PostgreSQL snoop database", TRUE),
       Param("es_url", "http://localhost:9200", "HOOVER_ES_URL", "Elasticsearch URL", TRUE),
       Param("tika_url", None, "HOOVER_TIKA_URL", "Tika URL", FALSE),
       Param("7z_exec", which["7z"], "HOOVER_SNOOP_SEVENZIP_EXEC",
             "Path to 7z executable", FALSE),
       Param("msgconvert_exec", which["msgconvert"], "HOOVER_SNOOP_MSGCONVERT_EXEC",
             "Path to msgconvert executable", FALSE),
       Param("readpst_exec", which["readpst"], "HOOVER_SNOOP_READPST_EXEC",
             "Path to readpst executable", FALSE),
       Param("gpg_exec", which["gpg"], "HOOVER_SNOOP_GPG_EXEC",
             "Path to gpg executable", FALSE),
       Param("allowed_hosts", "localhost", "HOOVER_ALLOWED_HOSTS",
             "Space separated list with the allowed hosts", TRUE),
       Param("oauth_client_id", None, "HOOVER_OAUTH_CLIENT_ID",
             "Client ID for OAuth2", FALSE),
       Param("oauth_client_secret", None, "HOOVER_OAUTH_CLIENT_SECRET",
             "Client secret for OAuth2", FALSE),
       Param("oauth_liquid_url", None, "HOOVER_OAUTH_LIQUID_URL",
             "URL that points to the liquid-core OAuth2 provider", FALSE),
       Param("config_dir", None, "HOOVER_CONFIG_DIR",
             "The directory in which the config files are saved. Symlinks are made to the actual files.",
             FALSE) >>

\* The attributes of class Params (its Param objects) and of a Param object.
ParamsAttrs ==
    {"virtualenv_url", "setuptools_url", "pip_url", "search_repo", "bootstrap_no_db",
     "snoop_repo", "ui_repo", "search_db", "snoop_db", "es_url", "tika_url",
     "sevenzip_exec", "msgconvert_exec", "readpst_exec", "gpg_exec", "allowed_hosts",
     "oauth_client_id", "oauth_client_secret", "oauth_liquid_url", "config_dir"}
ParamAttrs == {"name", "default", "environ", "question_label", "required", "value"}

\* The position in pl of the parameter called name.
IndexOf(pl, name) == CHOOSE i \in 1..Len(pl) : pl[i].name = name

\* Params.<name>.get() on the list pl: the list with the cache updated, and
\* the outcome of get. hoover_script never prompts (interactive_mode is
\* False), so no operator input is drawn.
get_param(pl, name) ==
    LET i == IndexOf(pl, name)
        r == get(pl[i], "")
    IN [pl |-> [pl EXCEPT ![i].value = r.value], r |-> r]

\* get() on each of names in turn (none of them can raise: each is optional,
\* or required and cached by the import loop).
RECURSIVE get_params(_, _)
get_params(pl, names) ==
    IF names = <<>> THEN pl ELSE get_params(get_param(pl, Head(names)).pl, Tail(names))

\* Lines 211-213: `for param in param_list: if param.required: param.get()`,
\* from position i on; stops at the first get() that raises.
RECURSIVE import_loop(_, _)
import_loop(pl, i) ==
    IF i > Len(pl) THEN [pl |-> pl, raised |-> FALSE, name |-> None, environ |-> None]
    ELSE IF ~pl[i].required THEN import_loop(pl, i + 1)
    ELSE LET r == get(pl[i], "")
             pl2 == [pl EXCEPT ![i].value = r.value]
         IN IF r.raised
               THEN [pl |-> pl2, raised |-> TRUE, name |-> r.name, environ |-> r.environ]
               ELSE import_loop(pl2, i + 1)

(***************************************************************************)
(* Process outcomes                                                        *)
(***************************************************************************)

Running == script \in {"hoover_script.py", "install.py"} /\ exit = None /\ todo # <<>>

\* An uncaught exception e ends the process with status 1.
Raise(e) == exit' = "1" /\ exc' = e /\ todo' = <<>>

\* The step returned; rest is what remains to run (nothing: exit status 0).
Continue(rest) ==
    /\ todo' = rest
    /\ exit' = IF rest = <<>> THEN "0" ELSE None
    /\ exc' = None

(***************************************************************************)
(* parser.py and main(): the dispatcher                                    *)
(***************************************************************************)

\* The sub-commands main() declares, in order.
Subcommands ==
    <<"bootstrap", "reconfigure", "update", "upgrade",
      "webserver", "snoop", "search", "list_params">>

SeqToSet(q) == {q[i] : i \in 1..Len(q)}

\* Whether argparse takes token t for an option (before any "--").
IsOption(t) == t \in {"-h", "--help", "--x"}

\* ArgumentParser.parse_known_args for a parser with the -h/--help option and
\* one positional with `choices`: the scan of the remaining tokens, with cmd
\* the positional matched so far (None: not yet), extras the tokens left
\* over, dd whether the first "--" was passed, after_cmd whether the previous
\* token was the one matched to the positional.
\*   -h/--help before "--": print help, exit 0, wherever it stands;
\*   the first "--" is dropped when it stands next to the positional's token,
\*   else it is left in extras; after it every token is positional;
\*   an unknown option goes to extras;
\*   the first positional must be one of choices (else error, exit 2), the
\*   later ones go to extras; no positional at all is an error.
RECURSIVE parse_scan(_, _, _, _, _, _)
parse_scan(rest, choices, cmd, extras, dd, after_cmd) ==
    IF rest = <<>>
        THEN IF cmd = None
                THEN [outcome |-> "error", cmd |-> None, extras |-> <<>>]
                ELSE [outcome |-> "ok", cmd |-> cmd, extras |-> extras]
    ELSE LET t == Head(rest) IN
         IF ~dd /\ t \in {"-h", "--help"}
            THEN [outcome |-> "help", cmd |-> None, extras |-> <<>>]
         ELSE IF ~dd /\ t = "--"
            THEN parse_scan(Tail(rest), choices, cmd,
                            IF cmd = None \/ after_cmd THEN extras ELSE Append(extras, t),
                            TRUE, FALSE)
         ELSE IF ~dd /\ IsOption(t)
            THEN parse_scan(Tail(rest), choices, cmd, Append(extras, t), dd, FALSE)
         ELSE IF cmd = None
            THEN IF t \in choices
                    THEN parse_scan(Tail(rest), choices, t, extras, dd, TRUE)
                    ELSE [outcome |-> "error", cmd |-> None, extras |-> <<>>]
         ELSE parse_scan(Tail(rest), choices, cmd, Append(extras, t), dd, FALSE)

parse_known_args(args, choices) == parse_scan(args, choices, None, <<>>, FALSE, FALSE)


(***************************************************************************)
(* The file system.  Per service: target, the settings path inside the     *)
(* service's tree (home/<service>/.../settings/local.py); canonical, the   *)
(* path config_dir/<service>/local.py; other, some path elsewhere that a   *)
(* stale link may point to.  The service trees themselves are taken to be  *)
(* checked out (the settings directories exist).  dirs holds the           *)
(* directories made by the program, bin_hoover the launcher script, home   *)
(* the state of the installation folder install.py looks at, tmp the       *)
(* TemporaryDirectory of tmp_virtualenv.                                   *)
(***************************************************************************)

Services == {"search", "snoop"}

Absent == [type |-> "absent", content |-> None, to |-> None]
File(content) == [type |-> "file", content |-> content, to |-> None]
Link(to) == [type |-> "link", content |-> None, to |-> to]

\* The directory config_dir/<service>.
ServiceDir(s) == IF s = "search" THEN "config_dir/search" ELSE "config_dir/snoop"

\* What a symbolic link at target[s] points to.
Pointee(f, s) ==
    IF f.target[s].to = "canonical" THEN f.canonical[s] ELSE f.other[s]

\* Path.is_symlink() on target[s].
is_symlink(f, s) == f.target[s].type = "link"

\* Path.exists() on target[s]: follows links, false for a dangling one.
exists(f, s) ==
    \/ f.target[s].type = "file"
    \/ f.target[s].type = "link" /\ Pointee(f, s).type = "file"

\* Lines 329-334 (379-385): make the config directories, then link target[s]
\* to canonical[s] unless it is a link to that same file already.
\*   Path.symlink_to raises FileExistsError when anything is at target[s];
\*   Path.resolve / Path.samefile raise FileNotFoundError when the link
\*   dangles or canonical[s] does not exist (samefile stats both paths).
ensure_linked(f, s) ==
    LET f1 == [f EXCEPT !.dirs = @ \cup {"config_dir", ServiceDir(s)}]
        symlink_to ==
            IF f.target[s].type = "absent"
                THEN [fs |-> [f1 EXCEPT !.target[s] = Link("canonical")], raised |-> None]
                ELSE [fs |-> f1, raised |-> "FileExistsError"]
    IN IF ~is_symlink(f, s) THEN symlink_to
       ELSE IF Pointee(f, s).type # "file" \/ f.canonical[s].type # "file"
            THEN [fs |-> f1, raised |-> "FileNotFoundError"]
       ELSE IF f.target[s].to = "canonical"
            THEN [fs |-> f1, raised |-> None]
       ELSE symlink_to

\* The outcomes of `with local_py.open('w') as f: f.write(...)`: the write
\* completes, or fails after open() has truncated the file, leaving it empty
\* or with part of the text, or the run ends before open() has created or
\* truncated anything (open() itself raises, or the process is interrupted
\* while the template values are collected, lines 336-369).
IoOutcomes == {"ok", "fail_open", "fail_empty", "fail_partial"}

Written(io) ==
    CASE io = "ok" -> File("new")
      [] io = "fail_empty" -> File("")
      [] io = "fail_partial" -> File("partial")

\* Lines 370-371 (429-430): open dest ("target" or "canonical") for writing
\* and write the rendered template. open() follows a link at target[s] and
\* needs the directory of the file it creates.
write_settings(f, s, dest, io) ==
    LET failed == IF io = "ok" THEN None ELSE "OSError" IN
    IF io = "fail_open" THEN [fs |-> f, raised |-> failed]
    ELSE IF dest = "canonical" \/ (f.target[s].type = "link" /\ f.target[s].to = "canonical")
        THEN IF ServiceDir(s) \in f.dirs
                THEN [fs |-> [f EXCEPT !.canonical[s] = Written(io)], raised |-> failed]
                ELSE [fs |-> f, raised |-> "FileNotFoundError"]
    ELSE IF f.target[s].type = "link"
        THEN [fs |-> [f EXCEPT !.other[s] = Written(io)], raised |-> failed]
    ELSE [fs |-> [f EXCEPT !.target[s] = Written(io)], raised |-> failed]

\* The parameters configure_search / configure_snoop read for the template,
\* in order.
TemplateParams(s) ==
    IF s = "search"
        THEN <<"search_db", "es_url", "allowed_hosts", "oauth_client_id",
               "oauth_client_secret", "oauth_liquid_url">>
        ELSE <<"snoop_db", "es_url", "tika_url", "7z_exec", "7z_exec",
               "msgconvert_exec", "msgconvert_exec", "readpst_exec", "readpst_exec",
               "gpg_exec", "gpg_exec">>

\* A mutant of skip_existing: the exist_ok test inverted.
skip_existing_inverted(f, s, exist_ok) == exist_ok /\ exists(f, s)

\* Lines 324 (375): `not exist_ok and local_py.exists()`.
skip_existing(f, s, exist_ok) == ~exist_ok /\ exists(f, s)

\* configure_search(exist_ok) / configure_snoop(exist_ok) as a whole, with
\* the I/O outcome io: the state it leaves and the exception it raised.
configure(f, pl, nsecrets, out, s, exist_ok, io) ==
    IF skip_existing(f, s, exist_ok)
        THEN [fs |-> f, pl |-> pl, secrets |-> nsecrets, raised |-> None,
              stdout |-> Append(out, <<"already exists, skipping", s>>)]
    ELSE LET cd == get_param(pl, "config_dir")
             linked == IF cd.r.result # None
                          THEN ensure_linked(f, s)
                          ELSE [fs |-> f, raised |-> None]
             dest == IF cd.r.result # None THEN "canonical" ELSE "target"
         IN IF linked.raised # None
               THEN [fs |-> linked.fs, pl |-> cd.pl, secrets |-> nsecrets,
                     raised |-> linked.raised, stdout |-> out]
               ELSE LET w == write_settings(linked.fs, s, dest, io)
                    IN [fs |-> w.fs, pl |-> get_params(cd.pl, TemplateParams(s)),
                        secrets |-> nsecrets + 1, raised |-> w.raised,
                        stdout |-> Append(out, <<"Configuration values for", s>>)]


(***************************************************************************)
(* The operations, as the sequences of steps they run                      *)
(***************************************************************************)

\* preflight(run_migrations): migrate() first when asked to.
PreflightSteps(run_migrations) ==
    (IF run_migrations
        THEN <<"manage.py search migrate", "manage.py snoop migrate">>
        ELSE <<>>)
    \o <<"manage.py search downloadassets", "manage.py search collectstatic --noinput",
         "npm install", "./run build">>

\* tmp_virtualenv(): the three downloads made on entering the with block.
DownloadSteps == <<"download virtualenv.py", "download setuptools", "download pip">>

\* `with tmp_virtualenv() as create_virtualenv: body`: the temporary directory
\* is made, the downloads are fetched into it, body runs, the directory is
\* removed.
WithTmpVirtualenv(body) ==
    <<"TemporaryDirectory()">> \o DownloadSteps \o body \o <<"TemporaryDirectory.cleanup()">>

\* The body of each handler of hoover_script.py.
Body(handler) ==
    CASE handler = "bootstrap" ->
            <<"git clone search", "git clone snoop", "git clone ui">>
            \o WithTmpVirtualenv(
                 <<"virtualenv.py venvs/search", "venvs/search/bin/pip install -U setuptools pip",
                   "virtualenv.py venvs/snoop", "venvs/snoop/bin/pip install -U setuptools pip">>)
            \o <<"venvs/search/bin/pip install -r requirements.txt",
                 "venvs/snoop/bin/pip install -r requirements.txt",
                 "create_cache_dir", "create_scripts",
                 "configure_snoop(exist_ok=False)", "configure_search(exist_ok=False)",
                 "preflight(not bootstrap_no_db)">>
      [] handler = "reconfigure" ->
            <<"configure_search(exist_ok=True)", "configure_snoop(exist_ok=True)">>
      [] handler = "update" -> <<"git pull setup", "create_scripts">>
      [] handler = "upgrade" ->
            <<"git pull search", "git pull snoop", "git pull ui",
              "venvs/search/bin/pip-sync", "venvs/snoop/bin/pip-sync">>
            \o PreflightSteps(TRUE)
      [] handler = "webserver" -> <<"webserver">>
      [] handler = "snoop" -> <<"execv snoop manage.py">>
      [] handler = "search" -> <<"execv search manage.py">>
      [] handler = "list_params" -> <<"list_params">>

\* main() of install.py.
InstallSteps ==
    <<"installation folder">>
    \o WithTmpVirtualenv(<<"virtualenv.py venvs/search", "virtualenv.py venvs/snoop">>)
    \o <<"git clone setup", "git clone search", "git clone snoop", "git clone ui",
         "venvs/search/bin/pip install -r requirements.txt",
         "venvs/snoop/bin/pip install -r requirements.txt",
         "npm install", "./run build", "install bin/hoover">>

\* The steps that are external commands run through runcmd.
CommandSteps ==
    {"git clone setup", "git clone search", "git clone snoop", "git clone ui",
     "virtualenv.py venvs/search", "venvs/search/bin/pip install -U setuptools pip",
     "virtualenv.py venvs/snoop", "venvs/snoop/bin/pip install -U setuptools pip",
     "venvs/search/bin/pip install -r requirements.txt",
     "venvs/snoop/bin/pip install -r requirements.txt",
     "git pull setup", "git pull search", "git pull snoop", "git pull ui",
     "venvs/search/bin/pip-sync", "venvs/snoop/bin/pip-sync",
     "manage.py search migrate", "manage.py snoop migrate",
     "manage.py search downloadassets", "manage.py search collectstatic --noinput",
     "npm install", "./run build"}

\* The configure steps: [service, exist_ok].
ConfigureStep(step) ==
    CASE step = "configure_search(exist_ok=True)" -> [s |-> "search", exist_ok |-> TRUE]
      [] step = "configure_snoop(exist_ok=True)" -> [s |-> "snoop", exist_ok |-> TRUE]
      [] step = "configure_search(exist_ok=False)" -> [s |-> "search", exist_ok |-> FALSE]
      [] step = "configure_snoop(exist_ok=False)" -> [s |-> "snoop", exist_ok |-> FALSE]

ConfigureSteps ==
    {"configure_search(exist_ok=True)", "configure_snoop(exist_ok=True)",
     "configure_search(exist_ok=False)", "configure_snoop(exist_ok=False)"}

(***************************************************************************)
(* Actions                                                                 *)
(***************************************************************************)

\* hoover_script.py is imported: lines 22-25 (HOOVER_HOME must be set), the
\* Params class body (which is what shutil.which answers), lines 211-213.
Import(which) ==
    /\ Running /\ Head(todo) = "import"
    /\ IF ~Truthy(getenv("HOOVER_HOME"))
          THEN /\ Raise("RuntimeError")
               /\ UNCHANGED param_list
          ELSE LET l == import_loop(Params(which), 1)
               IN /\ param_list' = l.pl
                  /\ IF l.raised THEN Raise("RuntimeError") ELSE Continue(<<"main">>)
    /\ UNCHANGED <<environ, interactive_mode, ret, returns, script, argv, calls,
                   cmdlog, fs, stdout, secrets, fault, execd, attempt>>

\* main(): parse sys.argv[1:], then call the chosen handler with the rest.
Main ==
    /\ Running /\ Head(todo) = "main"
    /\ LET r == parse_known_args(argv, SeqToSet(Subcommands))
       IN CASE r.outcome = "help" ->
                 /\ stdout' = Append(stdout, <<"usage: hoover_script.py">>)
                 /\ exit' = "0" /\ exc' = None /\ todo' = <<>>
                 /\ UNCHANGED calls
            [] r.outcome = "error" ->
                 /\ exit' = "2" /\ exc' = "SystemExit" /\ todo' = <<>>
                 /\ UNCHANGED <<stdout, calls>>
            [] r.outcome = "ok" ->
                 /\ calls' = Append(calls, [handler |-> r.cmd, args |-> r.extras])
                 /\ Continue(Body(r.cmd))
                 /\ UNCHANGED stdout
    /\ UNCHANGED <<environ, interactive_mode, param_list, ret, returns, script, argv,
                   cmdlog, fs, secrets, fault, execd, attempt>>

\* TemporaryDirectory.__exit__: the temporary directory, if there is one, is
\* removed, on leaving the with block normally or by an exception.
cleanup(f) == [f EXCEPT !.tmp = "absent"]

\* Entering and leaving the with block of tmp_virtualenv().
TmpDir ==
    /\ Running /\ Head(todo) \in {"TemporaryDirectory()", "TemporaryDirectory.cleanup()"}
    /\ fs' = IF Head(todo) = "TemporaryDirectory()"
                THEN [fs EXCEPT !.tmp = "present"] ELSE cleanup(fs)
    /\ Continue(Tail(todo))
    /\ UNCHANGED <<environ, interactive_mode, param_list, ret, returns, script, argv,
                   calls, cmdlog, stdout, secrets, fault, execd, attempt>>

\* A mutant of check_call: subprocess.call, which returns the status.
call_unchecked(status) == FALSE

\* subprocess.check_call raises CalledProcessError on a nonzero status.
check_call(status) == status # 0

\* runcmd(cmd): the external command runs to completion and its status is
\* checked.
RunCmd(status) ==
    /\ Running /\ Head(todo) \in CommandSteps
    /\ cmdlog' = Append(cmdlog, [cmd |-> Head(todo), status |-> status])
    /\ IF check_call(status)
          THEN Raise("CalledProcessError") /\ fs' = cleanup(fs)
          ELSE Continue(Tail(todo)) /\ UNCHANGED fs
    /\ UNCHANGED <<environ, interactive_mode, param_list, ret, returns, script, argv,
                   calls, stdout, secrets, fault, execd, attempt>>

\* download(url, tmp): urlretrieve fetches the file or raises.
Download(ok) ==
    /\ Running /\ Head(todo) \in SeqToSet(DownloadSteps)
    /\ IF ok
          THEN Continue(Tail(todo)) /\ UNCHANGED fs
          ELSE Raise("URLError") /\ fs' = cleanup(fs)
    /\ UNCHANGED <<environ, interactive_mode, param_list, ret, returns, script, argv,
                   calls, cmdlog, stdout, secrets, fault, execd, attempt>>

CacheDirs == {"cache", "cache/msg", "cache/archives", "cache/pst", "cache/gpg_home"}

\* create_cache_dir(): Path.mkdir() without exist_ok.
CreateCacheDir ==
    /\ Running /\ Head(todo) = "create_cache_dir"
    /\ IF "cache" \in fs.dirs
          THEN Raise("FileExistsError") /\ UNCHANGED fs
          ELSE fs' = [fs EXCEPT !.dirs = @ \cup CacheDirs] /\ Continue(Tail(todo))
    /\ UNCHANGED <<environ, interactive_mode, param_list, ret, returns, script, argv,
                   calls, cmdlog, stdout, secrets, fault, execd, attempt>>

\* create_scripts(): bin/ is made if missing and bin/hoover written.
CreateScripts ==
    /\ Running /\ Head(todo) = "create_scripts"
    /\ fs' = [fs EXCEPT !.dirs = @ \cup {"bin"}, !.bin_hoover = "exec hoover_script.py"]
    /\ Continue(Tail(todo))
    /\ UNCHANGED <<environ, interactive_mode, param_list, ret, returns, script, argv,
                   calls, cmdlog, stdout, secrets, fault, execd, attempt>>

\* configure_search / configure_snoop, with the I/O outcome io.
Configure(io) ==
    /\ Running /\ Head(todo) \in ConfigureSteps
    /\ LET st == ConfigureStep(Head(todo))
           c == configure(fs, param_list, secrets, stdout, st.s, st.exist_ok, io)
       IN /\ fs' = c.fs
          /\ param_list' = c.pl
          /\ secrets' = c.secrets
          /\ stdout' = c.stdout
          /\ IF c.raised # None THEN Raise(c.raised) ELSE Continue(Tail(todo))
    /\ fault' = io
    /\ UNCHANGED <<environ, interactive_mode, ret, returns, script, argv, calls,
                   cmdlog, execd, attempt>>

\* bootstrap's last line: preflight(not Params.bootstrap_no_db.get()).
Preflight ==
    /\ Running /\ Head(todo) = "preflight(not bootstrap_no_db)"
    /\ LET g == get_param(param_list, "bootstrap_no_db")
       IN /\ param_list' = g.pl
          /\ Continue(PreflightSteps(~Truthy(g.r.result)) \o Tail(todo))
    /\ UNCHANGED <<environ, interactive_mode, ret, returns, script, argv, calls,
                   cmdlog, fs, stdout, secrets, fault, execd, attempt>>

\* The lines list_params prints for pl[i..], and whether it got through:
\* `param.optional` is read for each entry, then param.get() is called.
RECURSIVE list_entries(_, _, _)
list_entries(pl, i, out) ==
    IF i > Len(pl) THEN [pl |-> pl, stdout |-> out, raised |-> None]
    ELSE LET head == out \o << <<"====", pl[i].name, "====">>,
                              <<"label:", pl[i].question_label>>,
                              <<"env:", pl[i].environ>>,
                              <<"default:", pl[i].default>> >>
         IN IF "optional" \notin ParamAttrs
               THEN [pl |-> pl, stdout |-> head, raised |-> "AttributeError"]
            ELSE LET r == get(pl[i], "")
                     pl2 == [pl EXCEPT ![i].value = r.value]
                 IN IF r.raised
                       THEN [pl |-> pl2, stdout |-> head, raised |-> "RuntimeError"]
                       ELSE list_entries(pl2, i + 1,
                                head \o << <<"optional:", ~pl[i].required>>,
                                           <<"value:", r.result>>, <<>> >>)

\* list_params(args): the header, then `for param in Params.param_list`.
ListParams ==
    /\ Running /\ Head(todo) = "list_params"
    /\ LET header == stdout \o << <<"Listing HOOVER SETUP params...">>, <<>> >>
       IN IF "param_list" \notin ParamsAttrs
             THEN /\ stdout' = header
                  /\ Raise("AttributeError")
                  /\ UNCHANGED param_list
             ELSE LET l == list_entries(param_list, 1, header)
                  IN /\ stdout' = l.stdout
                     /\ param_list' = l.pl
                     /\ IF l.raised # None THEN Raise(l.raised) ELSE Continue(Tail(todo))
    /\ UNCHANGED <<environ, interactive_mode, ret, returns, script, argv, calls,
                   cmdlog, fs, secrets, fault, execd, attempt>>

\* The servers webserver() accepts and what it runs for each.
Wsgi(server) ==
    IF server = "search" THEN "hoover.site.wsgi:application" ELSE "snoop.site.wsgi:application"
Waitress(server) ==
    IF server = "search"
        THEN "venvs/search/bin/waitress-serve" ELSE "venvs/snoop/bin/waitress-serve"

\* The handlers that end in os.execv: webserver (after its own parse of the
\* arguments), snoop and search.
Exec ==
    /\ Running /\ Head(todo) \in {"webserver", "execv snoop manage.py", "execv search manage.py"}
    /\ LET args == calls[Len(calls)].args IN
       IF Head(todo) = "webserver"
          THEN LET r == parse_known_args(args, {"search", "snoop"})
               IN CASE r.outcome = "help" ->
                         /\ stdout' = Append(stdout, <<"usage: hoover_script.py server">>)
                         /\ exit' = "0" /\ exc' = None /\ todo' = <<>>
                         /\ UNCHANGED execd
                    [] r.outcome = "error" ->
                         /\ exit' = "2" /\ exc' = "SystemExit" /\ todo' = <<>>
                         /\ UNCHANGED <<stdout, execd>>
                    [] r.outcome = "ok" ->
                         /\ execd' = <<Waitress(r.cmd)>> \o r.extras \o <<Wsgi(r.cmd)>>
                         /\ exit' = "exec" /\ exc' = None /\ todo' = <<>>
                         /\ UNCHANGED stdout
          ELSE /\ execd' = (IF Head(todo) = "execv snoop manage.py"
                               THEN <<"venvs/snoop/bin/python", "snoop/manage.py">>
                               ELSE <<"venvs/search/bin/python", "search/manage.py">>)
                           \o args
               /\ exit' = "exec" /\ exc' = None /\ todo' = <<>>
               /\ UNCHANGED stdout
    /\ UNCHANGED <<environ, interactive_mode, param_list, ret, returns, script, argv,
                   calls, cmdlog, fs, secrets, fault, attempt>>

\* install.py main(), lines 55-58: ask for the installation folder, refuse a
\* non-empty one, create it.
InstallationFolder ==
    /\ Running /\ Head(todo) = "installation folder"
    /\ IF fs.home = "populated"
          THEN Raise("RuntimeError") /\ UNCHANGED fs
          ELSE fs' = [fs EXCEPT !.home = "empty"] /\ Continue(Tail(todo))
    /\ UNCHANGED <<environ, interactive_mode, param_list, ret, returns, script, argv,
                   calls, cmdlog, stdout, secrets, fault, execd, attempt>>

\* install.py main(), lines 81-91: write bin/hoover and announce success.
InstallScript ==
    /\ Running /\ Head(todo) = "install bin/hoover"
    /\ fs' = [fs EXCEPT !.dirs = @ \cup {"bin"}, !.bin_hoover = "hoover_script.py"]
    /\ stdout' = Append(stdout, <<"Success! Next step: run bin/hoover configure">>)
    /\ Continue(Tail(todo))
    /\ UNCHANGED <<environ, interactive_mode, param_list, ret, returns, script, argv,
                   calls, cmdlog, secrets, fault, execd, attempt>>


(***************************************************************************)
(* Spec: one run of hoover_script.py with one sub-command, or of           *)
(* install.py, from an arbitrary environment and file system.              *)
(***************************************************************************)

\* os.environ with the variables given a value other than None.
EnvFrom(assign) == [k \in {x \in DOMAIN assign : assign[x] # None} |-> assign[k]]

\* The environments drawn: HOOVER_HOME, HOOVER_CONFIG_DIR (unset, empty, a
\* directory) and HOOVER_BOOTSTRAP_NO_DB; every other variable unset.
ScriptEnvs ==
    { EnvFrom([HOOVER_HOME |-> h, HOOVER_CONFIG_DIR |-> c, HOOVER_BOOTSTRAP_NO_DB |-> n]) :
        h \in {"/hoover"}, c \in {None, "", "/cfg"}, n \in {None, "1"} }
    \cup { NoEnv }

\* A file system in which nothing of the installation's own exists yet.
FreshFs ==
    [target |-> [s \in Services |-> Absent],
     canonical |-> [s \in Services |-> Absent],
     other |-> [s \in Services |-> Absent],
     dirs |-> {},
     bin_hoover |-> None,
     home |-> "populated",
     tmp |-> "absent"]

\* The file systems a run may start from: per service, any combination of
\* target (absent, a file, a link to canonical, a link elsewhere), canonical
\* and (behind a link elsewhere) the other file, present or not; the cache
\* directory made or not. A config directory exists where a canonical file
\* or a link to it does.
InitialFs ==
    { [FreshFs EXCEPT
          !.target = q[1], !.canonical = q[2], !.other = q[3],
          !.dirs = q[4] \cup UNION { {"config_dir", ServiceDir(s)} :
                       s \in {x \in Services : q[2][x].type = "file"
                                                 \/ q[1][x] = Link("canonical")} }] :
        q \in { p \in [Services -> {Absent, File("old"), Link("canonical"), Link("other")}]
                       \X [Services -> {Absent, File("old")}]
                       \X [Services -> {Absent, File("old")}]
                       \X {{}, CacheDirs} :
                    \A s \in Services : p[3][s] # Absent => p[1][s] = Link("other") } }

\* The command lines drawn: each sub-command alone, webserver with a server.
ScriptArgvs ==
    { <<c>> : c \in SeqToSet(Subcommands) }
    \cup { <<"webserver", "search">>, <<"webserver", "snoop">> }

Blank ==
    /\ param_list = <<>>
    /\ interactive_mode = FALSE
    /\ ret = NoRet
    /\ returns = <<>>
    /\ calls = <<>>
    /\ exit = None
    /\ exc = None
    /\ cmdlog = <<>>
    /\ stdout = <<>>
    /\ secrets = 0
    /\ fault = None
    /\ execd = <<>>
    /\ attempt = 1

InitScript ==
    /\ script = "hoover_script.py"
    /\ todo = <<"import">>
    /\ environ \in ScriptEnvs
    /\ argv \in ScriptArgvs
    /\ fs \in InitialFs
    /\ fs = FreshFs \/ Head(argv) \in {"bootstrap", "reconfigure"}
    /\ Blank

InitInstall ==
    /\ script = "install.py"
    /\ todo = InstallSteps
    /\ environ = NoEnv
    /\ argv = <<>>
    /\ fs \in { [FreshFs EXCEPT !.home = h] : h \in {"absent", "empty", "populated"} }
    /\ Blank

Init == InitScript \/ InitInstall

NextScript ==
    \/ \E which \in WhichResults : Import(which)
    \/ Main
    \/ \E status \in {0, 1} : RunCmd(status)
    \/ TmpDir
    \/ \E ok \in BOOLEAN : Download(ok)
    \/ CreateCacheDir
    \/ CreateScripts
    \/ \E io \in IoOutcomes : Configure(io)
    \/ Preflight
    \/ ListParams
    \/ Exec

Next ==
    \/ NextScript
    \/ InstallationFolder
    \/ InstallScript

Spec == Init /\ [][Next]_vars

(***************************************************************************)
(* SpecDispatch: hoover_script.py run with an arbitrary command line on a  *)
(* fresh installation.                                                     *)
(***************************************************************************)

\* The longest command line drawn.
MaxArgs == 2

DispatchTokens == SeqToSet(Subcommands) \cup {"-h", "--help", "--", "--x", "x"}

InitDispatch ==
    /\ script = "hoover_script.py"
    /\ todo = <<"import">>
    /\ environ = EnvFrom([HOOVER_HOME |-> "/hoover"])
    /\ argv \in UNION { [1..k -> DispatchTokens] : k \in 0..MaxArgs }
    /\ fs = FreshFs
    /\ Blank

SpecDispatch == InitDispatch /\ [][NextScript]_vars


(***************************************************************************)
(* Properties of the configure steps (checked under Spec)                  *)
(***************************************************************************)

\* The step about to run is configure_<s>(exist_ok=ok), and it runs.
ConfigureRuns(s, ok) ==
    /\ Running
    /\ Head(todo) \in ConfigureSteps
    /\ ConfigureStep(Head(todo)) = [s |-> s, exist_ok |-> ok]
    /\ todo' # todo

\* An external config root is configured for this run.
ConfigRootSet == Truthy(getenv("HOOVER_CONFIG_DIR"))

\* C3 (as claimed): with a config root configured, a configure step that may
\* overwrite and meets no I/O fault ends, whatever was at target_path before,
\* with target_path a link to canonical_path and the new settings written at
\* canonical_path and nowhere else.
C3_LinkCorrectness ==
    [][\A s \in Services :
          (ConfigureRuns(s, TRUE) /\ ConfigRootSet /\ fault' = "ok") =>
              /\ exc' = None
              /\ fs'.target[s] = Link("canonical")
              /\ fs'.canonical[s] = File("new")
              /\ fs'.other[s] = fs.other[s]]_vars

\* C4 (as claimed): no settings file is ever left truncated, empty or partly
\* written: each holds its complete previous content or the complete new one.
C4_AllOrNothing ==
    script = "hoover_script.py" =>
        \A s \in Services :
            \A node \in {fs.target[s], fs.canonical[s], fs.other[s]} :
                node.type = "file" => node.content \in {"old", "new"}

\* C5: a configure step run in skip-if-exists mode while target_path exists
\* (a file, or a link that resolves to one) reports skipping and changes
\* nothing: no file, link or directory, no secret, no parameter.
C5_SkipIfExists ==
    [][\A s \in Services :
          (/\ ConfigureRuns(s, FALSE)
           /\ \/ fs.target[s].type = "file"
              \/ /\ fs.target[s].type = "link"
                 /\ (IF fs.target[s].to = "canonical"
                        THEN fs.canonical[s] ELSE fs.other[s]).type = "file") =>
              /\ fs' = fs
              /\ secrets' = secrets
              /\ param_list' = param_list
              /\ stdout' = Append(stdout, <<"already exists, skipping", s>>)
              /\ exc' = None
              /\ todo' = Tail(todo)]_vars

\* C5's case happened: bootstrap, with a config root configured, reached
\* configure_snoop, found the settings file there and skipped it, and went on
\* to write the settings of search, which had none.
C5_Witness ==
    /\ calls # <<>> /\ calls[1].handler = "bootstrap"
    /\ ConfigRootSet
    /\ \E i \in 1..Len(stdout) : stdout[i] = <<"already exists, skipping", "snoop">>
    /\ fs.target["snoop"] = File("old")
    /\ fs.canonical["snoop"] = Absent
    /\ fs.canonical["search"] = File("new")
    /\ secrets = 1

(***************************************************************************)
(* list_params                                                             *)
(***************************************************************************)

\* The listing of parameters pl[i..]: seven lines for each.
RECURSIVE Listing(_, _)
Listing(pl, i) ==
    IF i > Len(pl) THEN <<>>
    ELSE << <<"====", pl[i].name, "====">>,
            <<"label:", pl[i].question_label>>,
            <<"env:", pl[i].environ>>,
            <<"default:", pl[i].default>>,
            <<"optional:", ~pl[i].required>>,
            <<"value:", pl[i].value>>,
            <<>> >> \o Listing(pl, i + 1)

\* C8 (as claimed): list_params ends normally having printed, after its
\* header, one entry for every declared parameter, in declaration order,
\* with its name, label, environment key, default, optional flag and value.
C8_ParameterListing ==
    (calls # <<>> /\ calls[1].handler = "list_params" /\ exit # None) =>
        /\ exit = "0"
        /\ Len(param_list) = Cardinality(ParamsAttrs)
        /\ stdout = << <<"Listing HOOVER SETUP params...">>, <<>> >> \o Listing(param_list, 1)

(***************************************************************************)
(* Fail-fast                                                               *)
(***************************************************************************)

\* The steps of the running operation, preflight unfolded.
RECURSIVE Unfold(_)
Unfold(steps) ==
    IF steps = <<>> THEN <<>>
    ELSE IF Head(steps) = "preflight(not bootstrap_no_db)"
        THEN PreflightSteps(~Truthy(getenv("HOOVER_BOOTSTRAP_NO_DB"))) \o Unfold(Tail(steps))
    ELSE <<Head(steps)>> \o Unfold(Tail(steps))

Program ==
    IF script = "install.py" THEN InstallSteps
    ELSE IF calls = <<>> THEN <<>>
    ELSE Unfold(Body(calls[1].handler))

IsCommand(step) == step \in CommandSteps

\* The commands in cmdlog are, in order, the first commands of the program.
InProgramOrder ==
    LET cmds == SelectSeq(Program, IsCommand)
    IN /\ Len(cmdlog) <= Len(cmds)
       /\ \A i \in 1..Len(cmdlog) : cmdlog[i].cmd = cmds[i]

\* What a step leaves behind in the installation: everything but the
\* scratch directory of tmp_virtualenv, which is removed on every way out of
\* its with block.
Installed(f) == [f EXCEPT !.tmp = "absent"]

\* C9: external commands run one after another in program order; a command
\* that returns a nonzero status is the last thing the operation does: the
\* process has ended with status 1, nothing remains to run, and from then on
\* nothing changes, what earlier steps did to the installation staying as it
\* is.
C9_FailFast ==
    /\ [](/\ InProgramOrder
          /\ \A i \in 1..Len(cmdlog) :
                cmdlog[i].status # 0 =>
                    /\ i = Len(cmdlog)
                    /\ exit = "1" /\ exc = "CalledProcessError" /\ todo = <<>>)
    /\ [][/\ cmdlog' # cmdlog =>
                /\ Len(cmdlog') = Len(cmdlog) + 1
                /\ SubSeq(cmdlog', 1, Len(cmdlog)) = cmdlog
                /\ cmdlog'[Len(cmdlog')].cmd = Head(todo)
                /\ cmdlog'[Len(cmdlog')].status # 0 =>
                      /\ Installed(fs') = Installed(fs)
                      /\ UNCHANGED <<stdout, secrets, param_list, execd>>
          /\ exit # None => UNCHANGED <<cmdlog, fs, stdout, secrets, execd, exit, todo>>]_vars

\* C9's case happened: bootstrap failed at `npm install`, late in preflight,
\* after the cache directories, bin/hoover and the settings were written, and
\* they are still there.
C9_Witness ==
    /\ calls # <<>> /\ calls[1].handler = "bootstrap"
    /\ exit = "1" /\ exc = "CalledProcessError"
    /\ cmdlog[Len(cmdlog)] = [cmd |-> "npm install", status |-> 1]
    /\ Len(cmdlog) = 14
    /\ CacheDirs \subseteq fs.dirs
    /\ fs.bin_hoover = "exec hoover_script.py"
    /\ fs.target["search"] = File("new")

(***************************************************************************)
(* The dispatcher (checked under SpecDispatch)                             *)
(***************************************************************************)

\* main() has parsed the command line.
Dispatched == ~(todo # <<>> /\ Head(todo) \in {"import", "main"})

\* C6 (as claimed): when the first token names a sub-command, main() calls
\* that handler exactly once, with exactly the remaining tokens.
C6_Passthrough ==
    (argv # <<>> /\ Head(argv) \in SeqToSet(Subcommands) /\ Dispatched) =>
        calls = << [handler |-> Head(argv), args |-> Tail(argv)] >>

(***************************************************************************)
(* SpecRerun: bootstrap or reconfigure on a fresh installation and, when   *)
(* it died in a configure step, reconfigure started again by the operator  *)
(* with the same environment on the file system the failed run left.       *)
(***************************************************************************)

\* The most times the program is started on one file system.
MaxAttempts == 2

\* What configure_search / configure_snoop raise: OSError from open/write,
\* FileExistsError from symlink_to, FileNotFoundError from resolve/samefile.
ConfigureErrors == {"OSError", "FileExistsError", "FileNotFoundError"}

\* The run was ended by an exception out of a configure step.
ConfigureFailed == exit = "1" /\ fault # None /\ exc \in ConfigureErrors

\* `hoover reconfigure` is started again: a new process, which imports the
\* module afresh, in the same environment and on the same file system.
Rerun ==
    /\ script = "hoover_script.py"
    /\ calls # <<>> /\ calls[1].handler \in {"bootstrap", "reconfigure"}
    /\ ConfigureFailed
    /\ attempt < MaxAttempts
    /\ attempt' = attempt + 1
    /\ argv' = <<"reconfigure">>
    /\ todo' = <<"import">>
    /\ param_list' = <<>>
    /\ ret' = NoRet
    /\ returns' = <<>>
    /\ calls' = <<>>
    /\ exit' = None
    /\ exc' = None
    /\ cmdlog' = <<>>
    /\ stdout' = <<>>
    /\ secrets' = 0
    /\ fault' = None
    /\ execd' = <<>>
    /\ UNCHANGED <<environ, interactive_mode, script, fs>>

InitRerun ==
    /\ script = "hoover_script.py"
    /\ todo = <<"import">>
    /\ environ \in ScriptEnvs
    /\ argv \in {<<"bootstrap">>, <<"reconfigure">>}
    /\ fs = FreshFs
    /\ Blank

NextRerun ==
    \/ \E which \in WhichResults : Import(which)
    \/ Main
    \/ \E status \in {0, 1} : RunCmd(status)
    \/ TmpDir
    \/ \E ok \in BOOLEAN : Download(ok)
    \/ CreateCacheDir
    \/ CreateScripts
    \/ \E io \in IoOutcomes : Configure(io)
    \/ Preflight
    \/ Rerun

SpecRerun == InitRerun /\ [][NextRerun]_vars

\* The settings of service s are completely written and, with a config root
\* configured, kept in the config root behind a link at target_path.
Materialized(s) ==
    IF ConfigRootSet
        THEN fs.target[s] = Link("canonical") /\ fs.canonical[s] = File("new")
        ELSE fs.target[s] = File("new")

\* C11 (as claimed): a reconfigure started after an earlier bootstrap or
\* reconfigure died in a configure step, and meeting no I/O fault of its own,
\* ends with exit status 0 and the settings of both services completely
\* written and correctly linked.
C11_RerunSafety ==
    (attempt > 1 /\ exit # None /\ fault \in {None, "ok"}) =>
        /\ exit = "0"
        /\ \A s \in Services : Materialized(s)

====
